---- MODULE Spec2Model ----
(***************************************************************************)
(* Model of the ring buffer of bring_up_command (ring_buffer.h and the     *)
(* ring_buffer.c part of Core/Src/command.c).                              *)
(*                                                                         *)
(* The RingBuffer struct is the record rb.  Every C function is an         *)
(* operator of the same name that maps the arguments and the struct value  *)
(* before the call to a record [rb, ret, out]: the struct after the call,  *)
(* the return code, and the caller's destination memory after the call.    *)
(* One action per function applies it to the state and records the call;  *)
(* Return is the caller taking the result before it makes its next call.  *)
(***************************************************************************)
EXTENDS Integers, Naturals, Sequences, FiniteSets, TLC

VARIABLES
    rb,       \* the RingBuffer instance: [buffer, head, tail, items]
    before,   \* the RingBuffer instance as it was when the last call was made
    call,     \* the call being observed: function name and arguments
    ret,      \* the return code of the last call
    out,      \* the caller's destination memory after the last call
    halted,   \* TRUE once a store through a null pointer has faulted
    pushed,   \* history: bytes of the successful RingBufferPush calls
    popped,   \* history: bytes delivered by the successful RingBufferPop calls
    ctx,      \* the producer and consumer contexts of the concurrent
              \* specifications: position in the code, arguments, registers
    parser    \* command_parser_process: the string of the last call, the
              \* actions it invoked, what it sent to the console, the LED

vars == <<rb, before, call, ret, out, halted, pushed, popped, ctx, parser>>

(***************************************************************************)
(* Program constants                                                       *)
(***************************************************************************)
RING_BUFFER_SIZE == 4

kOk == 0
kFull == 1
kEmpty == 2
kInvalidArgument == 3

\* uint16_t arithmetic is modulo 2^16
UINT16_MOD == 65536

(***************************************************************************)
(* Bounds of the model                                                     *)
(***************************************************************************)
\* bytes are drawn from 0..MaxByte
MaxByte == 1
\* longest history of successful pushes followed in SpecFifo
MaxHist == 5

\* the producer context of the concurrent specifications pushes the bytes
\* 0, 1, .., MaxTag, 0, 1, .. in this order
MaxTag == 4

Bytes == 0 .. MaxByte
\* batch sizes tried: the valid ones 0..N-1 and the two smallest invalid ones
BatchSizes == 0 .. (RING_BUFFER_SIZE + 1)
Indices == 0 .. (RING_BUFFER_SIZE - 1)
\* values of new_items tried: the batch sizes and the top of the 16-bit range
CountValues == BatchSizes \cup ((UINT16_MOD - RING_BUFFER_SIZE) .. (UINT16_MOD - 1))

(***************************************************************************)
(* The struct                                                              *)
(***************************************************************************)
RingBuffer(b, h, t, n) == [buffer |-> b, head |-> h, tail |-> t, items |-> n]

\* fault: the cursor is advanced without the wrap to 0
AdvanceMutNoWrap(x) == (x + 1) % UINT16_MOD
\* compare-and-reset advance of a cursor: if((++x) >= RING_BUFFER_SIZE) x = 0;
Advance(x) ==
    LET x1 == (x + 1) % UINT16_MOD
    IN  IF x1 >= RING_BUFFER_SIZE THEN 0 ELSE x1

Result(s, r, o) == [rb |-> s, ret |-> r, out |-> o]

(***************************************************************************)
(* State & lifecycle                                                       *)
(***************************************************************************)
RingBufferInit(rbNull, s) ==
    IF rbNull THEN Result(s, kInvalidArgument, <<>>)
    ELSE Result(RingBuffer(s.buffer, 0, 0, 0), kOk, <<>>)

\* fault: flush resets the bookkeeping but leaves the storage (no memset)
RingBufferFlushMutKeepStorage(rbNull, s) ==
    IF rbNull THEN Result(s, kInvalidArgument, <<>>)
    ELSE Result(RingBuffer(s.buffer, 0, 0, 0), kOk, <<>>)
RingBufferFlush(rbNull, s) ==
    IF rbNull THEN Result(s, kInvalidArgument, <<>>)
    ELSE Result(RingBuffer([i \in Indices |-> 0], 0, 0, 0), kOk, <<>>)

(***************************************************************************)
(* Capacity predicates                                                     *)
(***************************************************************************)
\* fault: full is reported at N bytes instead of N-1
RingBufferIsFullMutOffByOne(rbNull, s) ==
    IF rbNull THEN kInvalidArgument
    ELSE IF s.items >= RING_BUFFER_SIZE THEN kFull ELSE kOk
RingBufferIsFull(rbNull, s) ==
    IF rbNull THEN kInvalidArgument
    ELSE IF s.items >= (RING_BUFFER_SIZE - 1) THEN kFull ELSE kOk

RingBufferIsEmpty(rbNull, s) ==
    IF rbNull THEN kInvalidArgument
    ELSE IF s.items <= 0 THEN kEmpty ELSE kOk

\* fault: the pre-check lets one byte too many through
RingBufferWillFullMutOffByOne(rbNull, s, new_items) ==
    IF rbNull THEN kInvalidArgument
    ELSE IF s.items + new_items > RING_BUFFER_SIZE THEN kFull ELSE kOk

\* fault: the sum is taken in 16 bits, so it wraps before the comparison
RingBufferWillFullMutWrap(rbNull, s, new_items) ==
    IF rbNull THEN kInvalidArgument
    ELSE IF (s.items + new_items) % UINT16_MOD > (RING_BUFFER_SIZE - 1)
         THEN kFull ELSE kOk
\* items and new_items are promoted to int (32 bits on the target) before
\* they are added, so the sum does not wrap
RingBufferWillFull(rbNull, s, new_items) ==
    IF rbNull THEN kInvalidArgument
    ELSE IF s.items + new_items > (RING_BUFFER_SIZE - 1) THEN kFull ELSE kOk

(***************************************************************************)
(* Single-element transfer                                                 *)
(***************************************************************************)
\* fault: push advances head but does not count the byte
RingBufferPushMutNoCount(rbNull, s, data) ==
    IF rbNull THEN Result(s, kInvalidArgument, <<>>)
    ELSE IF RingBufferIsFull(FALSE, s) = kFull THEN Result(s, kFull, <<>>)
    ELSE Result(RingBuffer([s.buffer EXCEPT ![s.head] = data],
                           Advance(s.head), s.tail, s.items),
                kOk, <<>>)
\* fault: push stores the byte before it tests for full
RingBufferPushMutStoreFirst(rbNull, s, data) ==
    IF rbNull THEN Result(s, kInvalidArgument, <<>>)
    ELSE IF RingBufferIsFull(FALSE, s) = kFull
    THEN Result([s EXCEPT !.buffer[s.head] = data], kFull, <<>>)
    ELSE Result(RingBuffer([s.buffer EXCEPT ![s.head] = data],
                           Advance(s.head), s.tail,
                           (s.items + 1) % UINT16_MOD),
                kOk, <<>>)
RingBufferPush(rbNull, s, data) ==
    IF rbNull THEN Result(s, kInvalidArgument, <<>>)
    ELSE IF RingBufferIsFull(FALSE, s) = kFull THEN Result(s, kFull, <<>>)
    ELSE Result(RingBuffer([s.buffer EXCEPT ![s.head] = data],
                           Advance(s.head), s.tail,
                           (s.items + 1) % UINT16_MOD),
                kOk, <<>>)

\* fault: pop does not test for empty
RingBufferPopMutNoEmptyCheck(rbNull, dataNull, s, old) ==
    IF rbNull \/ dataNull THEN Result(s, kInvalidArgument, old)
    ELSE Result(RingBuffer(s.buffer, s.head, Advance(s.tail),
                           (s.items + UINT16_MOD - 1) % UINT16_MOD),
                kOk, <<s.buffer[s.tail]>>)
\* fault: pop does not advance tail
RingBufferPopMutNoAdvance(rbNull, dataNull, s, old) ==
    IF rbNull \/ dataNull THEN Result(s, kInvalidArgument, old)
    ELSE IF RingBufferIsEmpty(FALSE, s) = kEmpty THEN Result(s, kEmpty, old)
    ELSE Result(RingBuffer(s.buffer, s.head, s.tail,
                           (s.items + UINT16_MOD - 1) % UINT16_MOD),
                kOk, <<s.buffer[s.tail]>>)
\* old is the caller's byte *data before the call (<<>> when data is NULL)
RingBufferPop(rbNull, dataNull, s, old) ==
    IF rbNull \/ dataNull THEN Result(s, kInvalidArgument, old)
    ELSE IF RingBufferIsEmpty(FALSE, s) = kEmpty THEN Result(s, kEmpty, old)
    ELSE Result(RingBuffer(s.buffer, s.head, Advance(s.tail),
                           (s.items + UINT16_MOD - 1) % UINT16_MOD),
                kOk, <<s.buffer[s.tail]>>)

(***************************************************************************)
(* Introspection.  The operators give the call with a usable destination; *)
(* the actions below add the call whose destination pointer is NULL.      *)
(***************************************************************************)
\* old is the caller's uint16_t destination before the call
RingBufferFreeItems(rbNull, s, old) ==
    IF rbNull THEN Result(s, kInvalidArgument, old)
    ELSE Result(s, kOk,
                <<((RING_BUFFER_SIZE - 1) + UINT16_MOD - s.items) % UINT16_MOD>>)

RingBufferCurrentItems(rbNull, s, old) ==
    IF rbNull THEN Result(s, kInvalidArgument, old)
    ELSE Result(s, kOk, <<s.items>>)

RingBufferCurrentSize(rbNull, s, old) ==
    IF rbNull THEN Result(s, kInvalidArgument, old)
    ELSE IF s.head >= s.tail
         THEN Result(s, kOk, <<(s.head - s.tail) % UINT16_MOD>>)
         ELSE Result(s, kOk,
                     <<(RING_BUFFER_SIZE + s.head - s.tail) % UINT16_MOD>>)

(***************************************************************************)
(* Bulk transfer                                                           *)
(***************************************************************************)
\* for(i = 0; i < items; i++) { result = RingBufferPush(rb, data[i]); ... }
RECURSIVE StreamPushLoop(_, _, _, _)
StreamPushLoop(s, data, i, items) ==
    IF ~(i < items) THEN Result(s, kOk, <<>>)
    ELSE LET result == RingBufferPush(FALSE, s, data[i + 1])
         IN  IF result.ret # kOk THEN result
             ELSE StreamPushLoop(result.rb, data, i + 1, items)

\* fault: the batch is not pre-checked against the free space
RingBufferStreamPushMutNoPreflight(rbNull, dataNull, s, data, items) ==
    IF rbNull \/ dataNull \/ items >= RING_BUFFER_SIZE
    THEN Result(s, kInvalidArgument, <<>>)
    ELSE IF RingBufferIsFull(FALSE, s) # 0 THEN Result(s, kFull, <<>>)
    ELSE StreamPushLoop(s, data, 0, items)
RingBufferStreamPush(rbNull, dataNull, s, data, items) ==
    IF rbNull \/ dataNull \/ items >= RING_BUFFER_SIZE
    THEN Result(s, kInvalidArgument, <<>>)
    ELSE IF RingBufferIsFull(FALSE, s) # 0 THEN Result(s, kFull, <<>>)
    ELSE IF RingBufferWillFull(FALSE, s, items) = kFull THEN Result(s, kFull, <<>>)
    ELSE StreamPushLoop(s, data, 0, items)

\* for(i = 0; i < items; i++) { result = RingBufferPop(rb, &data[i]); ... }
RECURSIVE StreamPopLoop(_, _, _, _)
StreamPopLoop(s, data, i, items) ==
    IF ~(i < items) THEN Result(s, kOk, data)
    ELSE LET result == RingBufferPop(FALSE, FALSE, s, <<data[i + 1]>>)
             stored == [data EXCEPT ![i + 1] = result.out[1]]
         IN  IF result.ret # kOk THEN Result(result.rb, result.ret, stored)
             ELSE StreamPopLoop(result.rb, stored, i + 1, items)

\* fault: a batch larger than the queue is rejected before any pop
RingBufferStreamPopMutPreflight(rbNull, dataNull, s, old, items) ==
    IF rbNull \/ dataNull \/ items <= 0 THEN Result(s, kInvalidArgument, old)
    ELSE IF RingBufferIsEmpty(FALSE, s) # 0 THEN Result(s, kEmpty, old)
    ELSE IF s.items < items THEN Result(s, kEmpty, old)
    ELSE StreamPopLoop(s, old, 0, items)
\* old is the caller's array data[0..items-1] before the call
RingBufferStreamPop(rbNull, dataNull, s, old, items) ==
    IF rbNull \/ dataNull \/ items <= 0 THEN Result(s, kInvalidArgument, old)
    ELSE IF RingBufferIsEmpty(FALSE, s) # 0 THEN Result(s, kEmpty, old)
    ELSE StreamPopLoop(s, old, 0, items)

(***************************************************************************)
(* Specification                                                           *)
(***************************************************************************)
\* both contexts between calls, nothing observed yet
NoContext ==
    [pfn |-> "none", ppc |-> "idle", pdata |-> <<>>, pi |-> 0, preg |-> 0,
     pret |-> kOk, pfail |-> FALSE, raced |-> FALSE, retried |-> FALSE,
     cfn |-> "none", cpc |-> "idle", cout |-> 0, creg |-> 0, cret |-> kOk,
     ccond |-> FALSE, csize |-> 0, citems |-> 0, cquiet |-> FALSE,
     pending |-> <<>>, fifo |-> TRUE, seq |-> 0]

\* command_parser_process not called yet, the LED off
NoCommand ==
    [called |-> FALSE, input |-> <<>>, invoked |-> <<>>, console |-> <<>>,
     led |-> FALSE, was |-> FALSE]

NoCall == [fn |-> "none", rbNull |-> FALSE, ptrNull |-> FALSE,
           arg |-> 0, src |-> <<>>, old |-> <<>>]

Idle == call.fn = "none" /\ ~halted

\* The instance has been through RingBufferInit; its storage is whatever
\* the memory held.
Init ==
    /\ rb \in {RingBuffer(b, 0, 0, 0) : b \in [Indices -> Bytes]}
    /\ before = rb
    /\ call = NoCall
    /\ ret = kOk
    /\ out = <<>>
    /\ halted = FALSE
    /\ pushed = <<>>
    /\ popped = <<>>
    /\ ctx = NoContext
    /\ parser = NoCommand

\* a call that returns: the state takes the function's result
Returns(c, r) ==
    /\ Idle
    /\ before' = rb
    /\ rb' = r.rb
    /\ ret' = r.ret
    /\ out' = r.out
    /\ call' = c
    /\ halted' = FALSE

\* *num = ... with num == NULL and rb valid: the store goes to address 0.
\* The build either drops the store and returns kOk, or takes a fault and
\* the program stops; the RingBuffer itself is not touched.
NullStore(c) ==
    /\ Idle
    /\ before' = rb
    /\ rb' = rb
    /\ call' = c
    /\ out' = <<>>
    /\ \/ ret' = kOk /\ halted' = FALSE
       \/ ret' = ret /\ halted' = TRUE

\* the caller has the result and is ready for its next call
Return ==
    /\ call.fn # "none"
    /\ ~halted
    /\ call' = NoCall
    /\ ret' = kOk
    /\ out' = <<>>
    /\ before' = rb
    /\ UNCHANGED <<rb, halted, pushed, popped, ctx, parser>>

CallInit(rbNull) ==
    Returns([NoCall EXCEPT !.fn = "RingBufferInit", !.rbNull = rbNull],
            RingBufferInit(rbNull, rb))

CallFlush(rbNull) ==
    Returns([NoCall EXCEPT !.fn = "RingBufferFlush", !.rbNull = rbNull],
            RingBufferFlush(rbNull, rb))

CallIsFull(rbNull) ==
    Returns([NoCall EXCEPT !.fn = "RingBufferIsFull", !.rbNull = rbNull],
            Result(rb, RingBufferIsFull(rbNull, rb), <<>>))

CallIsEmpty(rbNull) ==
    Returns([NoCall EXCEPT !.fn = "RingBufferIsEmpty", !.rbNull = rbNull],
            Result(rb, RingBufferIsEmpty(rbNull, rb), <<>>))

CallWillFull(rbNull, new_items) ==
    Returns([NoCall EXCEPT !.fn = "RingBufferWillFull", !.rbNull = rbNull,
                           !.arg = new_items],
            Result(rb, RingBufferWillFull(rbNull, rb, new_items), <<>>))

CallPush(rbNull, data) ==
    Returns([NoCall EXCEPT !.fn = "RingBufferPush", !.rbNull = rbNull, !.arg = data],
            RingBufferPush(rbNull, rb, data))

CallPop(rbNull, dataNull, old) ==
    Returns([NoCall EXCEPT !.fn = "RingBufferPop", !.rbNull = rbNull,
                           !.ptrNull = dataNull, !.old = old],
            RingBufferPop(rbNull, dataNull, rb, old))

CallFreeItems(rbNull, numNull, old) ==
    LET c == [NoCall EXCEPT !.fn = "RingBufferFreeItems", !.rbNull = rbNull,
                            !.ptrNull = numNull, !.old = old]
    IN  IF ~rbNull /\ numNull THEN NullStore(c)
        ELSE Returns(c, RingBufferFreeItems(rbNull, rb, old))

CallCurrentItems(rbNull, numNull, old) ==
    LET c == [NoCall EXCEPT !.fn = "RingBufferCurrentItems", !.rbNull = rbNull,
                            !.ptrNull = numNull, !.old = old]
    IN  IF ~rbNull /\ numNull THEN NullStore(c)
        ELSE Returns(c, RingBufferCurrentItems(rbNull, rb, old))

CallCurrentSize(rbNull, numNull, old) ==
    LET c == [NoCall EXCEPT !.fn = "RingBufferCurrentSize", !.rbNull = rbNull,
                            !.ptrNull = numNull, !.old = old]
    IN  IF ~rbNull /\ numNull THEN NullStore(c)
        ELSE Returns(c, RingBufferCurrentSize(rbNull, rb, old))

CallStreamPush(rbNull, dataNull, data, items) ==
    Returns([NoCall EXCEPT !.fn = "RingBufferStreamPush", !.rbNull = rbNull,
                           !.ptrNull = dataNull, !.arg = items, !.src = data],
            RingBufferStreamPush(rbNull, dataNull, rb, data, items))

CallStreamPop(rbNull, dataNull, old, items) ==
    Returns([NoCall EXCEPT !.fn = "RingBufferStreamPop", !.rbNull = rbNull,
                           !.ptrNull = dataNull, !.arg = items, !.old = old],
            RingBufferStreamPop(rbNull, dataNull, rb, old, items))

\* the caller's memory behind a pointer argument: n elements, absent when
\* the pointer is NULL
Arrays(ptrNull, n) == IF ptrNull THEN {<<>>} ELSE [1 .. n -> Bytes]

DoInit ==
    /\ Idle
    /\ \E rbNull \in BOOLEAN : CallInit(rbNull)
    /\ UNCHANGED <<pushed, popped, ctx, parser>>

DoFlush ==
    /\ Idle
    /\ \E rbNull \in BOOLEAN : CallFlush(rbNull)
    /\ UNCHANGED <<pushed, popped, ctx, parser>>

DoIsFull ==
    /\ Idle
    /\ \E rbNull \in BOOLEAN : CallIsFull(rbNull)
    /\ UNCHANGED <<pushed, popped, ctx, parser>>

DoIsEmpty ==
    /\ Idle
    /\ \E rbNull \in BOOLEAN : CallIsEmpty(rbNull)
    /\ UNCHANGED <<pushed, popped, ctx, parser>>

DoWillFull ==
    /\ Idle
    /\ \E rbNull \in BOOLEAN, new_items \in CountValues :
          CallWillFull(rbNull, new_items)
    /\ UNCHANGED <<pushed, popped, ctx, parser>>

DoPush ==
    /\ Idle
    /\ \E rbNull \in BOOLEAN, data \in Bytes : CallPush(rbNull, data)
    /\ UNCHANGED <<pushed, popped, ctx, parser>>

DoPop ==
    /\ Idle
    /\ \E rbNull \in BOOLEAN, dataNull \in BOOLEAN :
          \E old \in Arrays(dataNull, 1) : CallPop(rbNull, dataNull, old)
    /\ UNCHANGED <<pushed, popped, ctx, parser>>

DoFreeItems ==
    /\ Idle
    /\ \E rbNull \in BOOLEAN, numNull \in BOOLEAN :
          \E old \in Arrays(numNull, 1) : CallFreeItems(rbNull, numNull, old)
    /\ UNCHANGED <<pushed, popped, ctx, parser>>

DoCurrentItems ==
    /\ Idle
    /\ \E rbNull \in BOOLEAN, numNull \in BOOLEAN :
          \E old \in Arrays(numNull, 1) : CallCurrentItems(rbNull, numNull, old)
    /\ UNCHANGED <<pushed, popped, ctx, parser>>

DoCurrentSize ==
    /\ Idle
    /\ \E rbNull \in BOOLEAN, numNull \in BOOLEAN :
          \E old \in Arrays(numNull, 1) : CallCurrentSize(rbNull, numNull, old)
    /\ UNCHANGED <<pushed, popped, ctx, parser>>

DoStreamPush ==
    /\ Idle
    /\ \E rbNull \in BOOLEAN, dataNull \in BOOLEAN, items \in BatchSizes :
          \E data \in Arrays(dataNull, items) :
             CallStreamPush(rbNull, dataNull, data, items)
    /\ UNCHANGED <<pushed, popped, ctx, parser>>

DoStreamPop ==
    /\ Idle
    /\ \E rbNull \in BOOLEAN, dataNull \in BOOLEAN, items \in BatchSizes :
          \E old \in Arrays(dataNull, items) :
             CallStreamPop(rbNull, dataNull, old, items)
    /\ UNCHANGED <<pushed, popped, ctx, parser>>

Next ==
    \/ DoInit
    \/ DoFlush
    \/ DoIsFull
    \/ DoIsEmpty
    \/ DoWillFull
    \/ DoPush
    \/ DoPop
    \/ DoFreeItems
    \/ DoCurrentItems
    \/ DoCurrentSize
    \/ DoStreamPush
    \/ DoStreamPop
    \/ Return

Spec == Init /\ [][Next]_vars

(***************************************************************************)
(* Push and pop alone, with the history of the bytes that went in and out *)
(***************************************************************************)
PushH ==
    /\ Idle
    /\ Len(pushed) < MaxHist
    /\ \E rbNull \in BOOLEAN, data \in Bytes :
          /\ CallPush(rbNull, data)
          /\ pushed' = IF ret' = kOk THEN Append(pushed, data) ELSE pushed
    /\ popped' = popped
    /\ ctx' = ctx
    /\ parser' = parser

PopH ==
    /\ Idle
    /\ \E rbNull \in BOOLEAN, dataNull \in BOOLEAN :
          \E old \in Arrays(dataNull, 1) :
             /\ CallPop(rbNull, dataNull, old)
             /\ popped' = IF ret' = kOk THEN Append(popped, out'[1]) ELSE popped
    /\ pushed' = pushed
    /\ ctx' = ctx
    /\ parser' = parser

NextFifo == PushH \/ PopH \/ Return

SpecFifo == Init /\ [][NextFifo]_vars

(***************************************************************************)
(* Properties                                                              *)
(***************************************************************************)
\* the queued bytes of s, oldest first: items bytes from tail on, wrapping
Contents(s) ==
    [i \in 1 .. s.items |-> s.buffer[(s.tail + i - 1) % RING_BUFFER_SIZE]]

IsCall(fn) == call.fn = fn /\ ~halted
\* the observed call had every pointer argument present
Valid(fn) == IsCall(fn) /\ ~call.rbNull /\ ~call.ptrNull

FreeSlots(s) == RingBufferFreeItems(FALSE, s, <<0>>).out[1]
UsedSlots(s) == RingBufferCurrentItems(FALSE, s, <<0>>).out[1]
CursorSpan(s) == RingBufferCurrentSize(FALSE, s, <<0>>).out[1]

\* C1: under any sequence of RingBufferPush and RingBufferPop calls the bytes
\* delivered by the successful pops are, in order, a prefix of the bytes
\* given to the successful pushes, and the bytes not yet delivered are
\* exactly the ones still queued (nothing lost, duplicated or reordered).
C1_FifoOrder ==
    /\ Len(popped) <= Len(pushed)
    /\ SubSeq(pushed, 1, Len(popped)) = popped
    /\ Contents(rb) = SubSeq(pushed, Len(popped) + 1, Len(pushed))

C1_Witness ==
    /\ Len(popped) = RING_BUFFER_SIZE + 1
    /\ popped[1] # popped[2]
    /\ popped[RING_BUFFER_SIZE] # popped[RING_BUFFER_SIZE + 1]

\* C2: from a freshly initialized buffer with no byte popped in between, a
\* RingBufferPush returns kOk while fewer than N-1 pushes have succeeded and
\* kFull once N-1 have: the first N-1 pushes are accepted, the N-th is not.
C2_UsableCapacity ==
    (Valid("RingBufferPush") /\ popped = <<>>) =>
        LET accepted == IF ret = kOk THEN Len(pushed) - 1 ELSE Len(pushed)
        IN  ret = IF accepted < RING_BUFFER_SIZE - 1 THEN kOk ELSE kFull

C2_Witness ==
    /\ Valid("RingBufferPush")
    /\ popped = <<>>
    /\ Len(pushed) = RING_BUFFER_SIZE - 1
    /\ ret = kFull

\* C3: a RingBufferPush on a buffer holding N-1 bytes returns kFull, a
\* RingBufferPop on a buffer holding none returns kEmpty, and either leaves
\* head, tail, items and the storage as they were; the pop leaves the
\* caller's output byte as it was.
C3_FailureIsNoOp ==
    /\ (Valid("RingBufferPush") /\ before.items = RING_BUFFER_SIZE - 1) =>
          (ret = kFull /\ rb = before)
    /\ (Valid("RingBufferPop") /\ before.items = 0) =>
          (ret = kEmpty /\ rb = before /\ out = call.old)

C3_Witness ==
    /\ Valid("RingBufferPop")
    /\ before.items = 0
    /\ ret = kEmpty
    /\ before.buffer[before.tail] # call.old[1]

\* C4: in every state reached through the public operations items is in
\* 0..N-1 and head and tail are in 0..N-1.
C4_Ranges ==
    /\ rb.items \in 0 .. (RING_BUFFER_SIZE - 1)
    /\ rb.head \in 0 .. (RING_BUFFER_SIZE - 1)
    /\ rb.tail \in 0 .. (RING_BUFFER_SIZE - 1)

C4_Witness ==
    /\ IsCall("RingBufferStreamPush")
    /\ ret = kOk
    /\ rb.items = RING_BUFFER_SIZE - 1
    /\ rb.head < rb.tail

C6_FreePlusUsed ==
    /\ FreeSlots(rb) + UsedSlots(rb) = RING_BUFFER_SIZE - 1
    /\ Valid("RingBufferFreeItems") =>
          (ret = kOk /\ out[1] + before.items = RING_BUFFER_SIZE - 1)

C6_Witness ==
    /\ Valid("RingBufferFreeItems")
    /\ out = <<0>>
    /\ rb.items = RING_BUFFER_SIZE - 1

\* C7: with non-null arguments RingBufferStreamPush(b, data, k) returns kOk
\* exactly when free_slots(b) >= k at call time, and when it returns kOk
\* items has grown by k and the k bytes are queued in data's order behind
\* the bytes already queued.
C7_StreamPushIffRoom ==
    Valid("RingBufferStreamPush") =>
        /\ (ret = kOk) <=> (FreeSlots(before) >= call.arg)
        /\ (ret = kOk) =>
              /\ rb.items = before.items + call.arg
              /\ Contents(rb) = Contents(before) \o call.src

\* C8: a RingBufferStreamPush that returns anything but kOk leaves head,
\* tail, items and the storage as they were: no part of the batch is
\* committed.
C8_StreamPushAllOrNothing ==
    (IsCall("RingBufferStreamPush") /\ ret # kOk) => rb = before

C8_Witness ==
    /\ Valid("RingBufferStreamPush")
    /\ ret = kFull
    /\ before.items \in 1 .. (RING_BUFFER_SIZE - 2)
    /\ call.arg \in 2 .. (RING_BUFFER_SIZE - 1)
    /\ before.buffer[before.head] # call.src[1]

\* C9: RingBufferStreamPop(b, out, n) with n > 0 on a buffer holding c bytes:
\* c = 0 gives kEmpty and changes nothing; 0 < c < n gives kEmpty with the c
\* queued bytes in out[0..c-1] in FIFO order, out[c..n-1] as it was and the
\* buffer empty; c >= n gives kOk with the n oldest bytes in out[0..n-1] and
\* items reduced by n.
C9_StreamPopCases ==
    (Valid("RingBufferStreamPop") /\ call.arg > 0) =>
        LET c == before.items
            n == call.arg
        IN  /\ (c = 0) => (ret = kEmpty /\ rb = before /\ out = call.old)
            /\ (0 < c /\ c < n) =>
                  /\ ret = kEmpty
                  /\ out = Contents(before) \o SubSeq(call.old, c + 1, n)
                  /\ rb.items = 0
                  /\ Contents(rb) = <<>>
            /\ (c >= n) =>
                  /\ ret = kOk
                  /\ out = SubSeq(Contents(before), 1, n)
                  /\ rb.items = c - n
                  /\ Contents(rb) = SubSeq(Contents(before), n + 1, c)

C9_Witness ==
    /\ Valid("RingBufferStreamPop")
    /\ before.items = 2
    /\ call.arg = RING_BUFFER_SIZE
    /\ ret = kEmpty
    /\ out[1] # out[2]
    /\ out[2] # out[3]
    /\ before.head < before.tail

\* C10: RingBufferFlush on any state returns kOk and leaves head, tail and
\* items 0 and every storage byte 0; a flush right after it gives the same
\* state, and a RingBufferPop right after it returns kEmpty.
C10_FlushResets ==
    Valid("RingBufferFlush") =>
        /\ ret = kOk
        /\ rb = RingBuffer([i \in Indices |-> 0], 0, 0, 0)
        /\ RingBufferFlush(FALSE, rb).rb = rb
        /\ RingBufferFlush(FALSE, rb).ret = kOk
        /\ \A b \in Bytes : RingBufferPop(FALSE, FALSE, rb, <<b>>).ret = kEmpty

C10_Witness ==
    /\ Valid("RingBufferFlush")
    /\ before.items = RING_BUFFER_SIZE - 1
    /\ before.tail > 0
    /\ \A i \in Indices : before.buffer[i] # 0

\* C11: every public function called with a required reference absent (the
\* buffer, or the output or data location) returns kInvalidArgument and
\* leaves the buffer as it was.
C11_NullIsInvalid ==
    (call.fn # "none" /\ (call.rbNull \/ call.ptrNull)) =>
        (~halted /\ ret = kInvalidArgument /\ rb = before)

\* C12: a bulk call with non-null arguments and a batch size outside 0..N-1
\* returns kInvalidArgument at every fill level and transfers no byte.
C12_BatchSizeChecked ==
    ((Valid("RingBufferStreamPush") \/ Valid("RingBufferStreamPop"))
        /\ call.arg \notin 0 .. (RING_BUFFER_SIZE - 1)) =>
        (ret = kInvalidArgument /\ rb = before /\ out = call.old)

\* C13: RingBufferWillFull(b, k) returns kFull exactly when items + k > N-1
\* and kOk otherwise, for k up to 65535 with the sum not reduced modulo 2^16,
\* and leaves the buffer as it was.
C13_WillFullExact ==
    Valid("RingBufferWillFull") =>
        /\ ret = IF before.items + call.arg > RING_BUFFER_SIZE - 1
                 THEN kFull ELSE kOk
        /\ rb = before

C13_Witness ==
    /\ Valid("RingBufferWillFull")
    /\ call.arg = UINT16_MOD - 1
    /\ before.items = 1
    /\ ret = kFull

\* C14: RingBufferCurrentSize stores RING_BUFFER_SIZE - 1 in *num in every
\* reachable state.
C14_CurrentSizeIsCapacity ==
    Valid("RingBufferCurrentSize") =>
        (ret = kOk /\ out = <<RING_BUFFER_SIZE - 1>>)

(***************************************************************************)
(* Two contexts on one RingBuffer.  The producer context runs              *)
(* RingBufferPush or RingBufferStreamPush, the consumer context runs       *)
(* RingBufferPop or the two occupancy queries; the arguments are non-null. *)
(* A step is one access to a field of the shared struct (head, tail and    *)
(* items are volatile, so every access in the source is one load or one    *)
(* store, in program order).                                               *)
(***************************************************************************)
\* fault: the store of the incremented counter is left out
IncStoreMutSkip(loaded) == loaded
\* rb->items++ : the value stored for the value loaded
IncStore(loaded) == (loaded + 1) % UINT16_MOD

\* fault: the store of the decremented counter is left out
DecStoreMutSkip(loaded) == loaded
\* rb->items-- : the value stored for the value loaded
DecStore(loaded) == (loaded + UINT16_MOD - 1) % UINT16_MOD

\* a producer step: the shared struct and the producer's part of ctx change;
\* what the consumer observed is no longer of a quiet producer
Producer(pc, s, c) ==
    /\ ctx.ppc = pc
    /\ rb' = s
    /\ ctx' = [c EXCEPT !.cquiet = FALSE]
    /\ UNCHANGED <<before, call, ret, out, halted, pushed, popped, parser>>

Consumer(pc, s, c) ==
    /\ ctx.cpc = pc
    /\ rb' = s
    /\ ctx' = c
    /\ UNCHANGED <<before, call, ret, out, halted, pushed, popped, parser>>

\* the byte is accepted: it is the newest of the bytes not yet delivered
Accepted(c, byte) ==
    [c EXCEPT !.pending = Append(c.pending, byte),
              !.seq = (c.seq + 1) % (MaxTag + 1)]

\* the byte is delivered: fifo stays TRUE as long as every byte delivered
\* is the oldest one accepted and not yet delivered
Delivered(c, byte) ==
    IF c.pending # <<>> /\ Head(c.pending) = byte
    THEN [c EXCEPT !.pending = Tail(c.pending)]
    ELSE [c EXCEPT !.fifo = FALSE]

\* the producer's call returns r
PReturn(c, r) == [c EXCEPT !.ppc = "idle", !.pret = r]

\* the next items bytes of the producer's stream: the bytes that follow the
\* ones accepted so far
NextBytes(items) == [i \in 1 .. items |-> (ctx.seq + i - 1) % (MaxTag + 1)]

\* RingBufferPush(rb, data) is called with the next byte of the stream
PCallPush ==
    Producer("idle", rb,
             [ctx EXCEPT !.pfn = "RingBufferPush", !.pdata = NextBytes(1),
                         !.pi = 0, !.ppc = "p_full", !.pfail = FALSE,
                         !.retried = FALSE])

\* RingBufferStreamPush(rb, data, items) is called with the next items bytes
\* of the stream, 0 <= items < N
PCallStreamPush(items) ==
    Producer("idle", rb,
             [ctx EXCEPT !.pfn = "RingBufferStreamPush",
                         !.pdata = NextBytes(items),
                         !.pi = 0, !.ppc = "sp_full", !.pfail = FALSE,
                         !.retried = FALSE])

\* if(RingBufferIsFull(rb)) return kFull;
PStreamIsFull ==
    Producer("sp_full", rb,
             IF RingBufferIsFull(FALSE, rb) # 0 THEN PReturn(ctx, kFull)
             ELSE [ctx EXCEPT !.ppc = "sp_will"])

\* if(RingBufferWillFull(rb, items) == kFull) return kFull; else for(...)
PStreamWillFull ==
    Producer("sp_will", rb,
             IF RingBufferWillFull(FALSE, rb, Len(ctx.pdata)) = kFull
             THEN PReturn(ctx, kFull)
             ELSE IF ~(ctx.pi < Len(ctx.pdata)) THEN PReturn(ctx, kOk)
             ELSE [ctx EXCEPT !.ppc = "p_full"])

\* RingBufferPush: if (RingBufferIsFull(rb) == kFull) return kFull;
\* inside RingBufferStreamPush the failure ends the loop and is returned
PIsFull ==
    Producer("p_full", rb,
             IF RingBufferIsFull(FALSE, rb) = kFull
             THEN [PReturn(ctx, kFull) EXCEPT
                      !.pfail = (ctx.pfn = "RingBufferStreamPush")]
             ELSE [ctx EXCEPT !.ppc = "p_store"])

\* rb->buffer[rb->head] = data;
PStore ==
    Producer("p_store",
             [rb EXCEPT !.buffer[rb.head] = ctx.pdata[ctx.pi + 1]],
             [ctx EXCEPT !.ppc = "p_head"])

\* ++rb->head, and the comparison of the new value with RING_BUFFER_SIZE
PHead ==
    LET h == (rb.head + 1) % UINT16_MOD
    IN  Producer("p_head", [rb EXCEPT !.head = h],
                 [ctx EXCEPT !.ppc = IF h >= RING_BUFFER_SIZE
                                     THEN "p_wrap" ELSE "p_count"])

\* rb->head = 0;
PWrap ==
    Producer("p_wrap", [rb EXCEPT !.head = 0], [ctx EXCEPT !.ppc = "p_count"])

\* the element is pushed: RingBufferPush returns kOk, and the loop of
\* RingBufferStreamPush goes on to the next element or the call returns kOk
ElementDone(c) ==
    IF c.pi + 1 < Len(c.pdata)
    THEN [c EXCEPT !.pi = c.pi + 1, !.ppc = "p_full"]
    ELSE [PReturn(c, kOk) EXCEPT !.pi = c.pi + 1]

\* rb->items++; as one indivisible step
PCount ==
    Producer("p_count", [rb EXCEPT !.items = IncStore(rb.items)],
             Accepted(ElementDone(ctx), ctx.pdata[ctx.pi + 1]))

\* rb->items++; as a load ...
PCountLoad ==
    Producer("p_count", rb, [ctx EXCEPT !.preg = rb.items, !.ppc = "p_inc"])

\* ... and a store; raced records that the consumer stored in between
PCountStore ==
    Producer("p_inc", [rb EXCEPT !.items = IncStore(ctx.preg)],
             [ElementDone(ctx) EXCEPT
                 !.raced = ctx.raced \/ (ctx.preg # rb.items)])

\* the consumer's call returns r
CReturn(c, r) == [c EXCEPT !.cpc = "idle", !.cret = r]

\* RingBufferPop(rb, &byte) is called; the values read from the occupancy
\* views before are dead
CCallPop ==
    Consumer("idle", rb,
             [ctx EXCEPT !.cfn = "RingBufferPop", !.cpc = "c_empty",
                         !.csize = 0, !.citems = 0, !.ccond = FALSE,
                         !.cquiet = FALSE])

\* if (RingBufferIsEmpty(rb) == kEmpty) return kEmpty;
CIsEmpty ==
    Consumer("c_empty", rb,
             IF RingBufferIsEmpty(FALSE, rb) = kEmpty THEN CReturn(ctx, kEmpty)
             ELSE [ctx EXCEPT !.cpc = "c_load"])

\* *data = rb->buffer[rb->tail];
CLoad ==
    Consumer("c_load", rb,
             [ctx EXCEPT !.cout = rb.buffer[rb.tail], !.cpc = "c_tail"])

\* ++rb->tail, and the comparison of the new value with RING_BUFFER_SIZE
CTail ==
    LET t == (rb.tail + 1) % UINT16_MOD
    IN  Consumer("c_tail", [rb EXCEPT !.tail = t],
                 [ctx EXCEPT !.cpc = IF t >= RING_BUFFER_SIZE
                                     THEN "c_wrap" ELSE "c_count"])

\* rb->tail = 0;
CWrap ==
    Consumer("c_wrap", [rb EXCEPT !.tail = 0], [ctx EXCEPT !.cpc = "c_count"])

\* rb->items--; as one indivisible step
CCount ==
    Consumer("c_count", [rb EXCEPT !.items = DecStore(rb.items)],
             Delivered(CReturn(ctx, kOk), ctx.cout))

\* rb->items--; as a load ...
CCountLoad ==
    Consumer("c_count", rb, [ctx EXCEPT !.creg = rb.items, !.cpc = "c_dec"])

\* ... and a store; raced records that the producer stored in between
CCountStore ==
    Consumer("c_dec", [rb EXCEPT !.items = DecStore(ctx.creg)],
             [CReturn(ctx, kOk) EXCEPT
                 !.raced = ctx.raced \/ (ctx.creg # rb.items)])

\* the consumer reads both occupancy views: RingBufferCurrentSize(rb, &size)
\* and then RingBufferCurrentItems(rb, &items)
CCallObserve ==
    Consumer("idle", rb,
             [ctx EXCEPT !.cfn = "RingBufferCurrentSize", !.cpc = "q_cond",
                         !.csize = 0, !.citems = 0, !.ccond = FALSE,
                         !.cquiet = TRUE])

\* if(rb->head >= rb->tail)
QCond ==
    Consumer("q_cond", rb,
             [ctx EXCEPT !.ccond = (rb.head >= rb.tail), !.cpc = "q_calc"])

\* *num = (rb->head - rb->tail);  or  *num = (RING_BUFFER_SIZE + rb->head
\* - rb->tail);  -- head is loaded again
QCalc ==
    Consumer("q_calc", rb,
             [ctx EXCEPT !.csize =
                            IF ctx.ccond
                            THEN (UINT16_MOD + rb.head - rb.tail) % UINT16_MOD
                            ELSE (RING_BUFFER_SIZE + rb.head - rb.tail)
                                    % UINT16_MOD,
                         !.cpc = "q_items"])

\* RingBufferCurrentItems: *num = rb->items;
QItems ==
    Consumer("q_items", rb,
             [CReturn(ctx, kOk) EXCEPT !.citems = rb.items,
                                       !.cfn = "RingBufferCurrentItems"])

(***************************************************************************)
(* Single producer, single consumer, items++ and items-- indivisible       *)
(***************************************************************************)
SStreamPush == \E items \in 0 .. (RING_BUFFER_SIZE - 1) : PCallStreamPush(items)

NextSpsc ==
    \/ PCallPush
    \/ SStreamPush
    \/ PStreamIsFull
    \/ PStreamWillFull
    \/ PIsFull
    \/ PStore
    \/ PHead
    \/ PWrap
    \/ PCount
    \/ CCallPop
    \/ CIsEmpty
    \/ CLoad
    \/ CTail
    \/ CWrap
    \/ CCount

SpecSpsc == Init /\ [][NextSpsc]_vars

\* C15: with one context pushing and another popping, items++ and items--
\* indivisible, every successful pop delivers the oldest byte accepted and
\* not yet delivered (nothing lost, duplicated or read before it was
\* written) and items stays in 0..N-1.
C15_SpscFifo ==
    /\ ctx.fifo
    /\ Len(ctx.pending) <= RING_BUFFER_SIZE - 1
    /\ rb.items \in 0 .. (RING_BUFFER_SIZE - 1)

\* a pop has delivered the byte just before the one that is now the oldest,
\* a push is in progress and the cursors have wrapped
C15_Witness ==
    /\ ctx.cpc = "idle" /\ ctx.cret = kOk /\ ctx.cfn = "RingBufferPop"
    /\ ctx.ppc = "p_count"
    /\ rb.head < rb.tail
    /\ Len(ctx.pending) = 1
    /\ ctx.cout = (ctx.pending[1] + MaxTag) % (MaxTag + 1)
    /\ ctx.fifo


(***************************************************************************)
(* One producer, one consumer, items++ and items-- each a load followed by *)
(* a store                                                                 *)
(***************************************************************************)
NextRace ==
    \/ PCallPush
    \/ PIsFull
    \/ PStore
    \/ PHead
    \/ PWrap
    \/ PCountLoad
    \/ PCountStore
    \/ CCallPop
    \/ CIsEmpty
    \/ CLoad
    \/ CTail
    \/ CWrap
    \/ CCountLoad
    \/ CCountStore

SpecRace == Init /\ [][NextRace]_vars

\* no call is in progress in either context
Quiescent == ctx.ppc = "idle" /\ ctx.cpc = "idle"

\* C16: with items++ and items-- each a load followed by a store, a push
\* interleaved with a pop can leave items different from the forward
\* distance from tail to head once both calls have completed; between calls
\* the two differ only after one context has stored the counter over the
\* other's update (the state C16_Witness shows that this happens).
C16_CounterRace ==
    (Quiescent /\ rb.items # CursorSpan(rb)) => ctx.raced

\* a push and a pop have both returned kOk, the producer's store of items
\* overwrote the consumer's decrement, and items is one more than the
\* distance from tail to head
C16_Witness ==
    /\ Quiescent /\ ctx.raced
    /\ ctx.pfn = "RingBufferPush" /\ ctx.pret = kOk
    /\ ctx.cfn = "RingBufferPop" /\ ctx.cret = kOk
    /\ ctx.preg = ctx.creg
    /\ rb.items = CursorSpan(rb) + 1


\* C17: with one producer and a consumer that only pops (items++ and items--
\* indivisible), no RingBufferPush inside the loop of RingBufferStreamPush
\* returns a failure; a RingBufferStreamPush that has returned either failed
\* its pre-check with nothing committed, or returned kOk with all its bytes
\* committed, in the order given.
C17_StreamPushCompletes ==
    /\ ~ctx.pfail
    /\ (ctx.pfn = "RingBufferStreamPush" /\ ctx.ppc = "idle") =>
          \/ ctx.pret = kOk /\ ctx.pi = Len(ctx.pdata) /\ ctx.fifo
          \/ ctx.pret = kFull /\ ctx.pi = 0
    /\ (ctx.pfn = "RingBufferStreamPush"
            /\ ctx.ppc \in {"p_full", "p_store", "p_head", "p_wrap", "p_count"}) =>
          rb.items + (Len(ctx.pdata) - ctx.pi) <= RING_BUFFER_SIZE - 1

\* a RingBufferStreamPush of N-1 bytes has returned kOk and the consumer is
\* about to complete the pop of the second of them
C17_Witness ==
    /\ ctx.pfn = "RingBufferStreamPush" /\ ctx.ppc = "idle"
    /\ ctx.pret = kOk
    /\ Len(ctx.pdata) = RING_BUFFER_SIZE - 1 /\ ctx.pi = RING_BUFFER_SIZE - 1
    /\ ctx.cpc = "c_count" /\ ctx.cout = ctx.pdata[2]
    /\ Len(ctx.pending) = 2


(***************************************************************************)
(* The consumer also reads the two occupancy views, RingBufferCurrentSize  *)
(* followed by RingBufferCurrentItems; items++ and items-- indivisible     *)
(***************************************************************************)
NextObs ==
    \/ PCallPush
    \/ PIsFull
    \/ PStore
    \/ PHead
    \/ PWrap
    \/ PCount
    \/ CCallPop
    \/ CIsEmpty
    \/ CLoad
    \/ CTail
    \/ CWrap
    \/ CCount
    \/ CCallObserve
    \/ QCond
    \/ QCalc
    \/ QItems

SpecObs == Init /\ [][NextObs]_vars

\* the consumer has read both views and the producer took no step meanwhile
Observed ==
    ctx.cpc = "idle" /\ ctx.cfn = "RingBufferCurrentItems" /\ ctx.cquiet

\* C18: with items++ and items-- indivisible, the value stored by
\* RingBufferCurrentSize and the value stored by RingBufferCurrentItems can
\* differ when the consumer reads them while a RingBufferPush is between
\* advancing head and incrementing items (the state C18_Witness); read while
\* the producer stands still, they differ only then, and by the one byte
\* whose count is outstanding.
C18_ViewsDisagreeMidPush ==
    (Observed /\ ctx.csize # ctx.citems) =>
        /\ ctx.ppc \in {"p_wrap", "p_count"}
        /\ ctx.ppc = "p_count" => ctx.csize = ctx.citems + 1

\* the producer has advanced head and not yet incremented items; the
\* consumer has read cursor distance 2 and items 1
C18_Witness ==
    /\ Observed
    /\ ctx.ppc = "p_count" /\ ctx.pfn = "RingBufferPush"
    /\ ctx.csize = 2 /\ ctx.citems = 1
    /\ ctx.csize = CursorSpan(rb) /\ ctx.citems = rb.items


(***************************************************************************)
(* A producer that pushes the bytes of its stream one by one and calls     *)
(* RingBufferPush again with the same byte each time it returns kFull, and *)
(* a consumer that keeps calling RingBufferPop; items++ and items--        *)
(* indivisible.  Each context keeps running: its next step is taken        *)
(* eventually.                                                             *)
(***************************************************************************)
\* the last RingBufferPush was refused
Refused == ctx.pfn = "RingBufferPush" /\ ctx.pret = kFull

\* RingBufferPush(rb, data) with the next byte, after the previous one was
\* accepted
PNextPush == ~Refused /\ PCallPush

\* RingBufferPush(rb, data) again with the byte that was refused
PRetryPush ==
    /\ Refused
    /\ Producer("idle", rb, [ctx EXCEPT !.ppc = "p_full", !.retried = TRUE])

ProducerLive ==
    \/ PNextPush
    \/ PRetryPush
    \/ PIsFull
    \/ PStore
    \/ PHead
    \/ PWrap
    \/ PCount

ConsumerLive ==
    \/ CCallPop
    \/ CIsEmpty
    \/ CLoad
    \/ CTail
    \/ CWrap
    \/ CCount

NextLive ==
    \/ PNextPush
    \/ PRetryPush
    \/ PIsFull
    \/ PStore
    \/ PHead
    \/ PWrap
    \/ PCount
    \/ CCallPop
    \/ CIsEmpty
    \/ CLoad
    \/ CTail
    \/ CWrap
    \/ CCount

SpecLive ==
    Init /\ [][NextLive]_vars /\ WF_vars(ProducerLive) /\ WF_vars(ConsumerLive)

\* the bytes accepted and not yet delivered
Pending == {ctx.pending[i] : i \in 1 .. Len(ctx.pending)}

\* C19: with the producer retrying a refused byte and the consumer popping
\* again and again, both weakly fair, every byte whose push has begun is
\* eventually accepted (RingBufferPush returns kOk for it), every accepted
\* byte is eventually delivered by a RingBufferPop, and it is never the case
\* that from some point on every push returns kFull and every pop kEmpty.
C19_Progress ==
    /\ (ctx.ppc = "p_full") ~> (ctx.ppc = "idle" /\ ctx.pret = kOk)
    /\ \A byte \in 0 .. MaxTag :
          (byte \in Pending) ~>
              (ctx.cpc = "idle" /\ ctx.cret = kOk /\ ctx.cout = byte)
    /\ ~<>[](ctx.pret = kFull /\ ctx.cret = kEmpty)

\* a byte that was refused has been pushed again, accepted, and delivered
C19_Witness ==
    /\ ctx.ppc = "idle" /\ ctx.pret = kOk /\ ctx.retried
    /\ ctx.cpc = "idle" /\ ctx.cret = kOk /\ ctx.cout = ctx.pdata[1]
    /\ ctx.pending = <<>>


(***************************************************************************)
(* The command interpreter.  A C string is the sequence of its characters  *)
(* before the terminating NUL.                                             *)
(***************************************************************************)
\* the characters that occur, in the order of their codes; NUL comes first
Alphabet ==
    <<" ", "d", "e", "f", "h", "i", "l", "n", "o", "p", "r", "s", "v", "x">>

\* the code of the character at position i of the string, 0 for its NUL
CharAt(str, i) ==
    IF i > Len(str) THEN 0
    ELSE CHOOSE k \in 1 .. Len(Alphabet) : Alphabet[k] = str[i]

RECURSIVE StrCmpFrom(_, _, _)
StrCmpFrom(a, b, i) ==
    IF CharAt(a, i) # CharAt(b, i) THEN CharAt(a, i) - CharAt(b, i)
    ELSE IF CharAt(a, i) = 0 THEN 0
    ELSE StrCmpFrom(a, b, i + 1)

\* fault: the comparison stops at the end of the second string
StrCmpMutPrefix(a, b) ==
    StrCmpFrom(SubSeq(a, 1, IF Len(a) < Len(b) THEN Len(a) ELSE Len(b)), b, 1)

\* strcmp(a, b)
StrCmp(a, b) == StrCmpFrom(a, b, 1)

\* strlen(str)
StrLen(str) == Len(str)

commands ==
    << [name |-> <<"l", "e", "d", " ", "o", "n">>, action |-> "cmd_led_on",
        help_text |-> "Liga o LED de usuario (LD2)."],
       [name |-> <<"l", "e", "d", " ", "o", "f", "f">>, action |-> "cmd_led_off",
        help_text |-> "Desliga o LED de usuario (LD2)."],
       [name |-> <<"v", "e", "r", "s", "i", "o", "n">>, action |-> "cmd_version",
        help_text |-> "Mostra a versao do firmware."],
       [name |-> <<"h", "e", "l", "p">>, action |-> "cmd_help",
        help_text |-> "Mostra esta ajuda."] >>

num_commands == Len(commands)

FW_VERSION == "0.1.0"

\* console_print(str)
console_print(p, str) == [p EXCEPT !.console = Append(p.console, str)]

cmd_led_on(p) == console_print([p EXCEPT !.led = TRUE], "LED ON\r\n")

cmd_led_off(p) == console_print([p EXCEPT !.led = FALSE], "LED OFF\r\n")

cmd_version(p) == console_print(p, <<"Firmware v", FW_VERSION, "\r\n">>)

\* the name left-justified in a field of ten characters
NameField(name) == name \o [i \in 1 .. (10 - Len(name)) |-> " "]

RECURSIVE HelpLines(_, _)
HelpLines(p, i) ==
    IF ~(i <= num_commands) THEN p
    ELSE HelpLines(console_print(p, <<NameField(commands[i].name), ": ",
                                      commands[i].help_text, "\r\n">>),
                   i + 1)

cmd_help(p) ==
    console_print(
        HelpLines(console_print(p, "--- Comandos Disponiveis ---\r\n"), 1),
        "---------------------------\r\n")

\* commands[i].action();
Invoke(p, i) ==
    LET q == [p EXCEPT !.invoked = Append(p.invoked, commands[i].action)]
    IN  CASE commands[i].action = "cmd_led_on" -> cmd_led_on(q)
          [] commands[i].action = "cmd_led_off" -> cmd_led_off(q)
          [] commands[i].action = "cmd_version" -> cmd_version(q)
          [] commands[i].action = "cmd_help" -> cmd_help(q)

Unrecognized == "Comando nao reconhecido. Digite 'help' para ver a lista.\r\n"

\* the for loop over the table, from entry i on, and the statement after it
RECURSIVE Dispatch(_, _, _)
Dispatch(p, command_string, i) ==
    IF ~(i <= num_commands) THEN console_print(p, Unrecognized)
    ELSE IF StrCmp(command_string, commands[i].name) = 0 THEN Invoke(p, i)
    ELSE Dispatch(p, command_string, i + 1)

command_parser_process(p, command_string) ==
    IF StrLen(command_string) = 0 THEN p
    ELSE Dispatch(p, command_string, 1)

Names == {commands[i].name : i \in 1 .. num_commands}

EditChars == {" ", "x", "n", "p"}

\* the strings given to the interpreter: the empty string, the names, their
\* beginnings and endings, and the names with one character inserted or
\* replaced
CommandStrings ==
    UNION {
        {SubSeq(n, 1, k) : k \in 0 .. Len(n)}
        \cup {SubSeq(n, k, Len(n)) : k \in 1 .. Len(n)}
        \cup {SubSeq(n, 1, k) \o <<c>> \o SubSeq(n, k + 1, Len(n)) :
                 k \in 0 .. Len(n), c \in EditChars}
        \cup {SubSeq(n, 1, k - 1) \o <<c>> \o SubSeq(n, k + 1, Len(n)) :
                 k \in 1 .. Len(n), c \in EditChars}
        : n \in Names }

\* command_parser_process(command_string) is called and returns
Process ==
    /\ \E command_string \in CommandStrings :
          parser' = command_parser_process(
                        [called |-> TRUE, input |-> command_string,
                         invoked |-> <<>>, console |-> <<>>,
                         led |-> parser.led, was |-> parser.led],
                        command_string)
    /\ UNCHANGED <<rb, before, call, ret, out, halted, pushed, popped, ctx>>

NextCmd ==
    \/ Process

SpecCmd == Init /\ [][NextCmd]_vars

\* the table entries whose name is the string
Matching(str) == {i \in 1 .. num_commands : commands[i].name = str}

\* C20 as stated: a string equal to a registered name invokes that
\* command's action exactly once and no other action; every other string
\* invokes no action and the unrecognized-command message is sent.
C20_ExactDispatch ==
    parser.called =>
        /\ \A i \in Matching(parser.input) :
              parser.invoked = <<commands[i].action>>
        /\ Matching(parser.input) = {} =>
              (parser.invoked = <<>> /\ parser.console = <<Unrecognized>>)

\* C20, amended: a string equal to a registered name invokes that command's
\* action exactly once and no other action; every other string that is not
\* empty invokes no action, leaves the LED as it was and the
\* unrecognized-command message is the only thing sent; the empty string
\* invokes no action, leaves the LED as it was and nothing is sent.
C20_ExactDispatchNonEmpty ==
    parser.called =>
        /\ \A i \in Matching(parser.input) :
              parser.invoked = <<commands[i].action>>
        /\ (Matching(parser.input) = {} /\ parser.input # <<>>) =>
              /\ parser.invoked = <<>>
              /\ parser.console = <<Unrecognized>>
              /\ parser.led = parser.was
        /\ parser.input = <<>> =>
              /\ parser.invoked = <<>>
              /\ parser.console = <<>>
              /\ parser.led = parser.was

\* "led onn" was given with the LED on: nothing invoked, the
\* unrecognized-command message sent, the LED still on
C20_Witness ==
    /\ parser.called
    /\ parser.input = <<"l", "e", "d", " ", "o", "n", "n">>
    /\ parser.invoked = <<>>
    /\ parser.console = <<Unrecognized>>
    /\ parser.was /\ parser.led

====
